---- MODULE Spec2Model ----
(***************************************************************************)
(* Model of the dataset-preparation pipeline of audit-log-lm:              *)
(* EHRAuditDataset (src/model/data.py) with the on-disk cache it writes    *)
(* and reads.  A log is the sequence of rows of the CSV file in file       *)
(* order; a data frame is a sequence of rows in positional order, each row *)
(* carrying the index label pandas gave it when the file was read.         *)
(***************************************************************************)
EXTENDS Integers, Sequences, FiniteSets, TLC

(* ---------------------------------------------------------------- bounds *)
\* longest log drawn as input
MaxLen == 3

(* ------------------------------------------------------- program values *)
\* seconds per minute: the thresholds are given in minutes (data.py:108,127)
SecPerMin == 60
\* float NaN in the time column (the first row's diff, data.py:102)
NaN == -1000000
\* -inf, the value of np.log(0) (data.py:147)
NegInf == -2000000
\* the missing value of a user identifier (a row created by enlargement)
NoUser == -1

(* -------------------------------------------------------------- inputs *)
TimeStamps == {0, 60, 121, 242}
\* (user identifier, event type) of a row
RowKinds == {<<7, "a">>, <<3, "b">>}
LogRows == [user : {k[1] : k \in RowKinds}, time : TimeStamps, ev : {k[2] : k \in RowKinds}]
Rows == {r \in LogRows : <<r.user, r.ev>> \in RowKinds}
Logs == UNION {[1..n -> Rows] : n \in 0..MaxLen}
\* Scenario A of the specification: three events at 100, 130 and 530 seconds
ScenarioA == << [user |-> 7, time |-> 100, ev |-> "a"],
                [user |-> 7, time |-> 130, ev |-> "a"],
                [user |-> 3, time |-> 530, ev |-> "b"] >>

\* a log whose timestamps go backwards in file order, by 1 s and by 60 s
BackwardLog == << [user |-> 7, time |-> 61, ev |-> "a"],
                 [user |-> 3, time |-> 60, ev |-> "b"],
                 [user |-> 3, time |-> 0,  ev |-> "b"] >>

\* a sorted log of two shifts: the first shift has two sessions, the second
\* shift has sessions of its own
MultiShiftLog == << [user |-> 7, time |-> 0,   ev |-> "a"],
                    [user |-> 3, time |-> 100, ev |-> "b"],
                    [user |-> 7, time |-> 300, ev |-> "a"],
                    [user |-> 3, time |-> 310, ev |-> "b"],
                    [user |-> 3, time |-> 410, ev |-> "b"],
                    [user |-> 7, time |-> 510, ev |-> "a"] >>

\* floor(1000 * ln(n)) for n = 1 .. 403
LnTable ==
  << 0, 693, 1098, 1386, 1609, 1791, 1945, 2079, 2197, 2302, 2397, 2484,
     2564, 2639, 2708, 2772, 2833, 2890, 2944, 2995, 3044, 3091, 3135, 3178,
     3218, 3258, 3295, 3332, 3367, 3401, 3433, 3465, 3496, 3526, 3555, 3583,
     3610, 3637, 3663, 3688, 3713, 3737, 3761, 3784, 3806, 3828, 3850, 3871,
     3891, 3912, 3931, 3951, 3970, 3988, 4007, 4025, 4043, 4060, 4077, 4094,
     4110, 4127, 4143, 4158, 4174, 4189, 4204, 4219, 4234, 4248, 4262, 4276,
     4290, 4304, 4317, 4330, 4343, 4356, 4369, 4382, 4394, 4406, 4418, 4430,
     4442, 4454, 4465, 4477, 4488, 4499, 4510, 4521, 4532, 4543, 4553, 4564,
     4574, 4584, 4595, 4605, 4615, 4624, 4634, 4644, 4653, 4663, 4672, 4682,
     4691, 4700, 4709, 4718, 4727, 4736, 4744, 4753, 4762, 4770, 4779, 4787,
     4795, 4804, 4812, 4820, 4828, 4836, 4844, 4852, 4859, 4867, 4875, 4882,
     4890, 4897, 4905, 4912, 4919, 4927, 4934, 4941, 4948, 4955, 4962, 4969,
     4976, 4983, 4990, 4997, 5003, 5010, 5017, 5023, 5030, 5036, 5043, 5049,
     5056, 5062, 5068, 5075, 5081, 5087, 5093, 5099, 5105, 5111, 5117, 5123,
     5129, 5135, 5141, 5147, 5153, 5159, 5164, 5170, 5176, 5181, 5187, 5192,
     5198, 5204, 5209, 5214, 5220, 5225, 5231, 5236, 5241, 5247, 5252, 5257,
     5262, 5267, 5272, 5278, 5283, 5288, 5293, 5298, 5303, 5308, 5313, 5318,
     5323, 5327, 5332, 5337, 5342, 5347, 5351, 5356, 5361, 5365, 5370, 5375,
     5379, 5384, 5389, 5393, 5398, 5402, 5407, 5411, 5416, 5420, 5424, 5429,
     5433, 5438, 5442, 5446, 5451, 5455, 5459, 5463, 5468, 5472, 5476, 5480,
     5484, 5488, 5493, 5497, 5501, 5505, 5509, 5513, 5517, 5521, 5525, 5529,
     5533, 5537, 5541, 5545, 5549, 5552, 5556, 5560, 5564, 5568, 5572, 5575,
     5579, 5583, 5587, 5590, 5594, 5598, 5602, 5605, 5609, 5613, 5616, 5620,
     5624, 5627, 5631, 5634, 5638, 5641, 5645, 5648, 5652, 5655, 5659, 5662,
     5666, 5669, 5673, 5676, 5680, 5683, 5686, 5690, 5693, 5697, 5700, 5703,
     5707, 5710, 5713, 5717, 5720, 5723, 5726, 5730, 5733, 5736, 5739, 5743,
     5746, 5749, 5752, 5755, 5758, 5762, 5765, 5768, 5771, 5774, 5777, 5780,
     5783, 5786, 5789, 5793, 5796, 5799, 5802, 5805, 5808, 5811, 5814, 5817,
     5820, 5823, 5826, 5828, 5831, 5834, 5837, 5840, 5843, 5846, 5849, 5852,
     5855, 5857, 5860, 5863, 5866, 5869, 5872, 5874, 5877, 5880, 5883, 5886,
     5888, 5891, 5894, 5897, 5899, 5902, 5905, 5908, 5910, 5913, 5916, 5918,
     5921, 5924, 5926, 5929, 5932, 5934, 5937, 5940, 5942, 5945, 5948, 5950,
     5953, 5955, 5958, 5961, 5963, 5966, 5968, 5971, 5973, 5976, 5978, 5981,
     5983, 5986, 5988, 5991, 5993, 5996, 5998 >>

(* ----------------------------------------------------- generic helpers *)
Last(s) == s[Len(s)]

RECURSIVE Concat(_)
Concat(ss) == IF ss = << >> THEN << >> ELSE Head(ss) \o Concat(Tail(ss))

Min(a, b) == IF a < b THEN a ELSE b

(* ------------------------------------------------------ Python options *)
\* an optional value is << >> (None) or <<v>>
Some(v) == <<v>>
IsNone(o) == o = << >>
Get(o) == o[1]

(* ------------------------------------------------ pandas on data frames *)
\* the row with one cell replaced
SetTime(row, v) == [label |-> row.label, user |-> row.user, time |-> v, ev |-> row.ev]
SetUser(row, v) == [label |-> row.label, user |-> v, time |-> row.time, ev |-> row.ev]

\* pd.read_csv: the rows in file order, labelled 0, 1, 2, ... (RangeIndex)
read_csv(file) ==
  [i \in 1..Len(file) |->
     [label |-> i - 1, user |-> file[i].user, time |-> file[i].time, ev |-> file[i].ev]]

\* one step of the sort: r goes after every row whose key is not greater
RECURSIVE InsertRow(_, _)
InsertRow(r, f) ==
  IF f = << >> THEN <<r>>
  ELSE IF Last(f).time <= r.time THEN Append(f, r)
  ELSE Append(InsertRow(r, SubSeq(f, 1, Len(f) - 1)), Last(f))

\* df.sort_values(by = timestamp_sort_cols): ascending by the timestamp, rows
\* of equal timestamp in file order (the tie-breaking column ACCESS_INSTANT
\* grows with the file position); every row keeps its label
RECURSIVE SortPrefix(_, _)
SortPrefix(f, n) == IF n = 0 THEN << >> ELSE InsertRow(f[n], SortPrefix(f, n - 1))

\* the first sort column decides: the timestamp, or ACCESS_INSTANT, whose
\* values are distinct and grow with the file position
sort_values(f, by) == IF by[1] = "time" THEN SortPrefix(f, Len(f)) ELSE f

\* Series.diff(): by position; the first position has no predecessor
diff(f) ==
  [i \in 1..Len(f) |->
     SetTime(f[i], IF i = 1 THEN NaN ELSE f[i].time - f[i - 1].time)]

\* df.loc[lab, timestamp_col] = v: by LABEL; a label the frame does not have
\* makes pandas append a new row whose other columns are missing
set_loc(f, lab, v) ==
  IF \E i \in 1..Len(f) : f[i].label = lab
  THEN [i \in 1..Len(f) |-> IF f[i].label = lab THEN SetTime(f[i], v) ELSE f[i]]
  ELSE Append(f, [label |-> lab, user |-> NoUser, time |-> v, ev |-> "nan"])

\* df.iloc[a:b]: by POSITION, 0-based, end exclusive, clipped to the frame
iloc(f, a, b) == SubSeq(f, a + 1, Min(b, Len(f)))

\* x > y on floats: every comparison with NaN is False
Greater(x, y) == x # NaN /\ x > y

(* -------------------------------------------- load_from_log, lines 96-105 *)
SortAndDelta(file, by) == set_loc(diff(sort_values(read_csv(file), by)), 0, 0)

(* ------------------------------------------- the two segmentation loops *)
\* the body of "for i, row in frame.iterrows()" from position p on: i is the
\* row's label; a row whose delta exceeds sep has its delta reset, and the
\* slice iloc[seq_start_idx : i] is appended
RECURSIVE SplitRows(_, _, _, _, _)
SplitRows(f, p, seq_start_idx, out, sep) ==
  IF p > Len(f) THEN [f |-> f, seq_start_idx |-> seq_start_idx, out |-> out]
  ELSE IF Greater(f[p].time, sep)
       THEN LET g == [i \in 1..Len(f) |-> IF i = p THEN SetTime(f[i], 0) ELSE f[i]]
                seq_end_idx == f[p].label
            IN SplitRows(g, p + 1, seq_end_idx,
                         Append(out, iloc(g, seq_start_idx, seq_end_idx)), sep)
       ELSE SplitRows(f, p + 1, seq_start_idx, out, sep)

\* lines 107-119: the shifts of the frame
SplitShifts(f, shift_sep_min) ==
  LET r == SplitRows(f, 1, 0, << >>, shift_sep_min * SecPerMin)
  IN Append(r.out, iloc(r.f, r.seq_start_idx, Len(r.f)))

\* lines 126-139: the sessions of the shifts from shift k on; seq_start_idx
\* is set once, before the loop over the shifts
RECURSIVE SplitSessionsFrom(_, _, _, _, _)
SplitSessionsFrom(shifts, k, seq_start_idx, out, sep) ==
  IF k > Len(shifts) THEN out
  ELSE LET r == SplitRows(shifts[k], 1, seq_start_idx, out, sep)
       IN SplitSessionsFrom(shifts, k + 1, r.seq_start_idx,
                            Append(r.out, iloc(r.f, r.seq_start_idx, Len(r.f))), sep)

SplitSessions(shifts, session_sep_min) ==
  SplitSessionsFrom(shifts, 1, 0, << >>, session_sep_min * SecPerMin)

(* -------------------------------------------- user codes, lines 121-124 *)
\* astype("category").cat.codes: the categories are the distinct values in
\* SORTED order; a value's code is its rank, a missing value's code is -1
cat_codes(shift) ==
  LET cats == {shift[i].user : i \in 1..Len(shift)} \ {NoUser}
  IN [i \in 1..Len(shift) |->
        SetUser(shift[i],
                IF shift[i].user = NoUser THEN -1
                ELSE Cardinality({c \in cats : c < shift[i].user}))]

RemapUsers(shifts) == [k \in 1..Len(shifts) |-> cat_codes(shifts[k])]

(* ----------------------------------------------- bucketing, lines 144-148 *)
\* x + 1 on floats
PlusOne(x) == IF x = NaN THEN NaN ELSE x + 1

\* np.log in thousandths: NaN for NaN and for negative arguments, -inf at 0
np_log(y) ==
  IF y = NaN \/ y < 0 THEN NaN
  ELSE IF y = 0 THEN NegInf
  ELSE LnTable[y]

\* digitize with NaN taken for the smallest value
digitize_NaNFirst(v, bins) ==
  IF v = NaN \/ v = NegInf THEN 0
  ELSE Cardinality({j \in 1..Len(bins) : bins[j] <= v})

\* np.digitize(v, bins) for increasing bins: the number of bins <= v;
\* NaN sorts after every bin, -inf before every bin
digitize(v, bins) ==
  IF v = NaN THEN Len(bins)
  ELSE IF v = NegInf THEN 0
  ELSE Cardinality({j \in 1..Len(bins) : bins[j] <= v})

\* the lambda of line 147
Bucket(x, timestamp_spaces) == digitize(np_log(PlusOne(x)), timestamp_spaces)

BucketSession(s, timestamp_spaces) ==
  [i \in 1..Len(s) |-> SetTime(s[i], Bucket(s[i].time, timestamp_spaces))]

Bucketize(ss, timestamp_spaces) ==
  IF IsNone(timestamp_spaces) THEN ss
  ELSE [k \in 1..Len(ss) |-> BucketSession(ss[k], Get(timestamp_spaces))]

(* --------------------------------------------------------- vocabulary *)
\* timestamp_spaces as prepare_data passes it: the first element is the
\* spacing entry, the others follow in increasing order (thousandths)
Edges == <<1000, 2000, 4500>>

\* the columns that are tokenized, in order (line 151)
tokenized_cols == <<"user", "time", "ev">>

\* the longest list of bin edges a configuration supplies
MaxBins == Len(Edges)

\* the strings the vocabulary knows, by column
VocabFields ==
  [user    |-> [i \in 1..(MaxLen + 2) |-> ToString(i - 1)],
   time    |-> [i \in 1..(MaxBins + 1) |-> ToString(i - 1)],
   ev      |-> <<"a", "b">>,
   special |-> <<"<eos>">>]

VocabOrder == <<"special", "user", "time", "ev">>

eos_token == "<eos>"

\* whether the vocabulary has an entry for the string s in column col
InVocab(col, s) == \E i \in 1..Len(VocabFields[col]) : VocabFields[col][i] = s

RECURSIVE FieldOffset(_, _)
FieldOffset(col, k) ==
  IF VocabOrder[k] = col THEN 0
  ELSE Len(VocabFields[VocabOrder[k]]) + FieldOffset(col, k + 1)

\* EHRVocab.field_to_token: one integer per (column, string)
field_to_token(col, s) ==
  FieldOffset(col, 1)
    + (CHOOSE i \in 1..Len(VocabFields[col]) : VocabFields[col][i] = s) - 1

(* ------------------------------------------- tokenization, lines 150-179 *)
\* str(row[col])
Str(row, col) ==
  CASE col = "user" -> ToString(row.user)
    [] col = "time" -> ToString(row.time)
    [] col = "ev"   -> row.ev

\* the list comprehension of lines 157-160 for one row
RowTokens(row) ==
  [c \in 1..Len(tokenized_cols) |->
     field_to_token(tokenized_cols[c], Str(row, tokenized_cols[c]))]

RECURSIVE ExtendRows(_, _)
ExtendRows(s, n) == IF n = 0 THEN << >> ELSE ExtendRows(s, n - 1) \o RowTokens(s[n])

\* the tokens of the rows without the end of sequence token
TokenizeSession_NoEos(s) == ExtendRows(s, Len(s))

\* lines 154-166: the tokens of the rows, then the end of sequence token
TokenizeSession(s) ==
  Append(ExtendRows(s, Len(s)), field_to_token("special", eos_token))

\* whether every value of the session has a vocabulary entry
Tokenizable(s) ==
  \A i \in 1..Len(s) : \A c \in 1..Len(tokenized_cols) :
     InVocab(tokenized_cols[c], Str(s[i], tokenized_cols[c]))

\* torch.split(t, n) for n >= 1: consecutive pieces of n elements, the last
\* one shorter when Len(t) is no multiple of n
RECURSIVE split(_, _)
split(t, n) ==
  IF Len(t) <= n THEN <<t>>
  ELSE <<SubSeq(t, 1, n)>> \o split(SubSeq(t, n + 1, Len(t)), n)

\* the chunk size without the division by the number of columns
ChunkSize_NoDiv(max_length) == Get(max_length)

\* line 173
ChunkSize(max_length) == Get(max_length) \div Len(tokenized_cols)

\* lines 171-175 for one tokenized example
Chunked(t, max_length) ==
  IF IsNone(max_length) THEN t ELSE split(t, ChunkSize(max_length))

\* torch.split raises for a split size of 0 on a non-empty tensor
CanChunk(max_length) == IsNone(max_length) \/ ChunkSize(max_length) >= 1

(* ------------------------------------------------------ configurations *)
\* the longest log whose preparation is cached
MaxCachedLen == 2

Thresholds ==
  { [session_sep_min |-> 1, shift_sep_min |-> 2] }

\* the default of n_positions (modules.py:135, 190)
DefaultPositions == 1024

MaxLengths == {<< >>, Some(2), Some(16), Some(DefaultPositions)}

\* timestamp_sort_cols: the default, the timestamp as the second sort
\* column, and a list without the timestamp column
DefaultSortCols == <<"time", "inst">>
SortCols == {DefaultSortCols, <<"inst", "time">>, <<"inst">>}

\* the arguments a caller may pass to EHRAuditDataset.__init__
AllConfigs(thresholds) ==
  { c \in [ session_sep_min     : {t.session_sep_min : t \in thresholds},
            shift_sep_min       : {t.shift_sep_min : t \in thresholds},
            timestamp_sort_cols : SortCols,
            timestamp_spaces    : {<< >>, Some(Edges)},
            should_tokenize     : BOOLEAN,
            cache               : {<< >>, Some("cache")},
            max_length          : MaxLengths ] :
      /\ [session_sep_min |-> c.session_sep_min, shift_sep_min |-> c.shift_sep_min]
           \in thresholds
      /\ (~ c.should_tokenize => IsNone(c.max_length)) }

\* lines 58-59: __init__ raises for tokenization without timestamp_spaces
Accepted(c) == ~ (IsNone(c.timestamp_spaces) /\ c.should_tokenize)

\* the arguments EHRAuditDataset.__init__ accepts, with the default sort
\* columns
Configs(thresholds) ==
  { c \in AllConfigs(thresholds) :
      Accepted(c) /\ c.timestamp_sort_cols = DefaultSortCols }

\* line 82: whether timestamp_col is one of timestamp_sort_cols
TimestampColSorted(c) ==
  \E i \in 1..Len(c.timestamp_sort_cols) : c.timestamp_sort_cols[i] = "time"

(* ------------------------------------------------------------- state *)
VARIABLES
  log,          \* the rows of the log file, in file order
  cfg,          \* the constructor arguments of the dataset
  disk,         \* the cache directory: dir, length (length.pkl), seqs (seqs.pt)
  pc,           \* where the dataset object is
  self_seqs,    \* self.seqs
  self_len,     \* self.len, an optional integer
  df,           \* load_from_log: the frame after line 105
  seqs_shifts,  \* load_from_log: the shifts after line 124
  seqs,         \* load_from_log: the sessions after line 139
  binned,       \* load_from_log: self.seqs after line 148
  tokenized,    \* load_from_log: every tokenized_example before line 171
  io            \* the kinds of file access this object has made

vars == <<log, cfg, disk, pc, self_seqs, self_len, df, seqs_shifts, seqs, binned, tokenized, io>>

input == <<log, cfg>>
locals == <<df, seqs_shifts, seqs, binned, tokenized>>

Absent == [st |-> "absent", val |-> << >>]
EmptyFile == [st |-> "empty", val |-> << >>]
Partial == [st |-> "partial", val |-> << >>]
Full(v) == [st |-> "full", val |-> v]

\* a dataset object right after __init__ (lines 42-60)
Fresh ==
  /\ pc = (IF Accepted(cfg) THEN "unloaded" ELSE "config_error")
  /\ io = {}
  /\ self_seqs = << >>
  /\ self_len = << >>
  /\ df = << >>
  /\ seqs_shifts = << >>
  /\ seqs = << >>
  /\ binned = << >>
  /\ tokenized = << >>

Init ==
  /\ \/ /\ log \in Logs
        /\ cfg \in Configs(Thresholds)
        /\ (~ IsNone(cfg.cache) => Len(log) <= MaxCachedLen)
        /\ (cfg.max_length = Some(DefaultPositions) => ~ IsNone(cfg.cache))
     \/ /\ log = MultiShiftLog
        /\ cfg \in Configs(Thresholds)
        /\ IsNone(cfg.cache)
     \/ /\ log = BackwardLog
        /\ cfg \in {c \in AllConfigs(Thresholds) :
                      Accepted(c) /\ c.timestamp_sort_cols = <<"inst", "time">>}
        /\ IsNone(cfg.cache)
     \/ /\ log \in Logs
        /\ Len(log) <= 1
        /\ cfg \in {c \in AllConfigs(Thresholds) :
                      ~ Accepted(c) \/ c.timestamp_sort_cols = <<"inst">>}
     \/ /\ log = ScenarioA
        /\ cfg \in Configs({[session_sep_min |-> 4, shift_sep_min |-> 300]})
        /\ IsNone(cfg.cache)
  /\ disk = [dir |-> FALSE, length |-> Absent, seqs |-> Absent]
  /\ Fresh

(* -------------------------------------------------------- load_from_log *)
\* whether lines 150-179 run to their end
TokenizeOk(ss) ==
  /\ CanChunk(cfg.max_length)
  /\ \A k \in 1..Len(ss) : Tokenizable(ss[k])

\* lines 77-180: everything load_from_log does in memory
load_from_log_body ==
  LET d  == SortAndDelta(log, cfg.timestamp_sort_cols)
      sh == RemapUsers(SplitShifts(d, cfg.shift_sep_min))
      se == SplitSessions(sh, cfg.session_sep_min)
      bs == Bucketize(se, cfg.timestamp_spaces)
      tk == [k \in 1..Len(bs) |-> TokenizeSession(bs[k])]
  IN /\ io' = io \cup {"read_log"}
     /\ UNCHANGED <<input, disk>>
     /\ IF ~ TimestampColSorted(cfg)
        THEN /\ pc' = "config_error"
             /\ UNCHANGED <<self_seqs, self_len, locals>>
        ELSE /\ df' = d
             /\ seqs_shifts' = sh
             /\ seqs' = se
             /\ binned' = bs
             /\ IF ~ cfg.should_tokenize
                THEN /\ tokenized' = << >>
                     /\ self_seqs' = bs
                     /\ self_len' = self_len
                     /\ pc' = IF IsNone(cfg.cache) THEN "loaded_log" ELSE "save_mkdir"
                ELSE IF ~ TokenizeOk(bs)
                THEN /\ tokenized' = << >>
                     /\ self_seqs' = bs
                     /\ self_len' = self_len
                     /\ pc' = "failed"
                ELSE /\ tokenized' = tk
                     /\ self_seqs' = [k \in 1..Len(tk) |-> Chunked(tk[k], cfg.max_length)]
                     /\ self_len' = Some(Len(tk))
                     /\ pc' = IF IsNone(cfg.cache) THEN "loaded_log" ELSE "save_mkdir"

\* load_from_log called on a new object
load_from_log ==
  /\ pc = "unloaded"
  /\ load_from_log_body

\* lines 184-185
MakeDirs ==
  /\ pc = "save_mkdir"
  /\ disk' = [disk EXCEPT !.dir = TRUE]
  /\ pc' = "save_open"
  /\ io' = (IF disk.dir THEN io ELSE io \cup {"write_dir"})
  /\ UNCHANGED <<input, self_seqs, self_len, locals>>

\* lines 187-189: open(..., "wb") creates or truncates length.pkl
OpenLength ==
  /\ pc = "save_open"
  /\ disk' = [disk EXCEPT !.length = EmptyFile]
  /\ pc' = "save_dump"
  /\ io' = io \cup {"write_length"}
  /\ UNCHANGED <<input, self_seqs, self_len, locals>>

\* line 190 and the end of the with block
DumpLength ==
  /\ pc = "save_dump"
  /\ disk' = [disk EXCEPT !.length = Full(self_len)]
  /\ pc' = "save_seqs"
  /\ UNCHANGED <<input, self_seqs, self_len, locals, io>>

\* line 192, first half: torch.save creates or truncates seqs.pt
SaveSeqsBegin ==
  /\ pc = "save_seqs"
  /\ disk' = [disk EXCEPT !.seqs = Partial]
  /\ pc' = "save_seqs_write"
  /\ io' = io \cup {"write_seqs"}
  /\ UNCHANGED <<input, self_seqs, self_len, locals>>

\* SaveSeqsEnd with the last sequence left out of the file
SaveSeqsEnd_DropLast ==
  /\ pc = "save_seqs_write"
  /\ disk' = [disk EXCEPT !.seqs = Full(SubSeq(self_seqs, 1, Len(self_seqs) - 1))]
  /\ pc' = "loaded_log"
  /\ UNCHANGED <<input, self_seqs, self_len, locals, io>>

\* line 192, second half: the sequences are written and the file is closed
SaveSeqsEnd ==
  /\ pc = "save_seqs_write"
  /\ disk' = [disk EXCEPT !.seqs = Full(self_seqs)]
  /\ pc' = "loaded_log"
  /\ UNCHANGED <<input, self_seqs, self_len, locals, io>>

(* ------------------------------------------------------ load_from_cache *)
\* the object's position after a call that returned normally
AfterCacheLoad == IF pc = "unloaded" THEN "loaded_cache" ELSE pc

\* the contents of length.pkl on which pickle.load raises EOFError (no byte
\* at all, or the bytes end where an opcode would begin) and those on which
\* it raises UnpicklingError (the bytes end inside an opcode, or are no pickle)
RunsOutOfInput == {"empty", "cut_at_opcode"}
Unpicklable == {"cut_in_opcode", "invalid"}

\* load_from_cache without the except clause of lines 209-210
load_from_cache_body_NoExcept(length, with_seqs) ==
  LET raises   == length /\ disk.length.st \in RunsOutOfInput \cup Unpicklable
      len_ok   == disk.dir /\ (length => disk.length.st # "absent") /\ ~ raises
      seqs_ok  == with_seqs => disk.seqs.st = "full"
  IN /\ self_len' = IF len_ok /\ length THEN disk.length.val ELSE self_len
     /\ self_seqs' = IF len_ok /\ with_seqs /\ seqs_ok THEN disk.seqs.val ELSE self_seqs
     /\ pc' = IF len_ok /\ seqs_ok THEN AfterCacheLoad ELSE "failed"
     /\ io' = io \cup (IF length /\ disk.dir /\ disk.length.st # "absent"
                       THEN {"read_length"} ELSE {})
                 \cup (IF with_seqs /\ len_ok /\ disk.seqs.st # "absent"
                       THEN {"read_seqs"} ELSE {})
     /\ UNCHANGED <<input, disk, locals>>

\* lines 199-215 with the arguments length and seqs: a missing directory, a
\* missing length.pkl and an unreadable seqs.pt raise; a length.pkl on which
\* pickle.load runs out of input gives the length 0 (EOFError, line 210);
\* any other error of pickle.load is not caught
load_from_cache_body(length, with_seqs) ==
  LET got_len  == IF ~ length THEN self_len
                  ELSE IF disk.length.st \in RunsOutOfInput THEN Some(0)
                  ELSE disk.length.val
      raises   == length /\ disk.length.st \in Unpicklable
      len_ok   == disk.dir /\ (length => disk.length.st # "absent") /\ ~ raises
      seqs_ok  == with_seqs => disk.seqs.st = "full"
  IN /\ self_len' = IF len_ok THEN got_len ELSE self_len
     /\ self_seqs' = IF len_ok /\ with_seqs /\ seqs_ok THEN disk.seqs.val ELSE self_seqs
     /\ pc' = IF len_ok /\ seqs_ok THEN AfterCacheLoad ELSE "failed"
     /\ io' = io \cup (IF length /\ disk.dir /\ disk.length.st # "absent"
                       THEN {"read_length"} ELSE {})
                 \cup (IF with_seqs /\ len_ok /\ disk.seqs.st # "absent"
                       THEN {"read_seqs"} ELSE {})
     /\ UNCHANGED <<input, disk, locals>>

CacheExists == disk.dir

\* load with the sequences read from the cache at once
load_Eager ==
  /\ pc = "unloaded"
  /\ IF ~ IsNone(cfg.cache) /\ CacheExists
     THEN load_from_cache_body(TRUE, TRUE)
     ELSE load_from_log_body

\* lines 62-71
load ==
  /\ pc = "unloaded"
  /\ IF ~ IsNone(cfg.cache) /\ CacheExists
     THEN load_from_cache_body(TRUE, FALSE)
     ELSE load_from_log_body

\* the indices __getitem__ is called with
Items == 0..1

Idle == pc \in {"unloaded", "loaded_log", "loaded_cache"}

\* lines 217-222: os.path.join(root_dir, None) raises when no cache is
\* configured; an index past the end raises
getitem ==
  /\ Idle
  /\ \E item \in Items :
       IF self_seqs = << >>
       THEN IF IsNone(cfg.cache)
            THEN /\ pc' = "failed"
                 /\ UNCHANGED <<input, disk, self_seqs, self_len, locals, io>>
            ELSE IF CacheExists
            THEN /\ load_from_cache_body(TRUE, TRUE)
                 /\ (pc' # "failed" => item < Len(self_seqs'))
            ELSE /\ pc' = "failed"
                 /\ UNCHANGED <<input, disk, self_seqs, self_len, locals, io>>
       ELSE /\ pc' = IF item < Len(self_seqs) THEN pc ELSE "failed"
            /\ UNCHANGED <<input, disk, self_seqs, self_len, locals, io>>

\* lines 224-229
dataset_len ==
  /\ Idle
  /\ IF IsNone(self_len)
     THEN IF IsNone(cfg.cache)
          THEN /\ pc' = "failed"
               /\ UNCHANGED <<input, disk, self_seqs, self_len, locals, io>>
          ELSE IF CacheExists
          THEN load_from_cache_body(TRUE, FALSE)
          ELSE UNCHANGED vars
     ELSE UNCHANGED vars

(* ------------------------------------------- prepare_data (modules.py) *)
\* the keyword parameters of EHRAuditDataset.__init__ (data.py:26-41)
InitParams ==
  {"root_dir", "session_sep_min", "shift_sep_min", "user_col", "timestamp_col",
   "timestamp_sort_cols", "event_type_cols", "log_name", "vocab",
   "timestamp_spaces", "should_tokenize", "cache", "max_length"}

\* the keywords log_load passes to the constructor (modules.py:196-212)
LogLoadKeywords ==
  {"session_sep_min", "shift_sep_min", "log_name", "vocab", "timestamp_spaces",
   "user_max", "should_tokenize", "cache", "max_length"}

\* a constructor that takes any keyword
InitAccepts_AnyKeyword(kw) == TRUE

\* a call with a keyword that is no parameter raises TypeError
InitAccepts(kw) == kw \subseteq InitParams

\* the values of n_positions
Positions == {DefaultPositions, 16}

\* modules.py:186-194: the directory the skip test looks at is the cache
\* directory for the default n_positions and audit_log_cache + "_" + n
\* otherwise; no code creates the latter
SkipDirExists(n_positions) ==
  IF n_positions # DefaultPositions THEN FALSE ELSE disk.dir

\* the dataset log_load constructs (modules.py:196-212)
PreparedDataset(n_positions) ==
  /\ cfg.should_tokenize
  /\ cfg.cache = Some("cache")
  /\ cfg.timestamp_spaces = Some(Edges)
  /\ cfg.timestamp_sort_cols = DefaultSortCols
  /\ cfg.max_length = Some(n_positions)

\* modules.py:178-213 for one provider whose log file has a size above zero
log_load(n_positions, reset_cache) ==
  /\ pc = "unloaded"
  /\ PreparedDataset(n_positions)
  /\ IF SkipDirExists(n_positions) /\ ~ reset_cache
     THEN /\ pc' = "skipped"
          /\ UNCHANGED <<input, disk, self_seqs, self_len, locals, io>>
     ELSE IF ~ InitAccepts(LogLoadKeywords)
     THEN /\ pc' = "type_error"
          /\ UNCHANGED <<input, disk, self_seqs, self_len, locals, io>>
     ELSE load_from_log_body

\* between two processes length.pkl is damaged: emptied, cut short or
\* overwritten with bytes that are no pickle
CorruptLength ==
  /\ pc = "unloaded"
  /\ disk.length.st = "full"
  /\ \E k \in RunsOutOfInput \cup Unpicklable :
       disk' = [disk EXCEPT !.length = [st |-> k, val |-> << >>]]
  /\ UNCHANGED <<input, pc, self_seqs, self_len, locals, io>>

\* the process ends, by its death or normally, and a later process
\* constructs a new dataset object for the same provider directory
Restart ==
  /\ pc # "unloaded"
  /\ Accepted(cfg)
  /\ pc' = "unloaded"
  /\ io' = {}
  /\ self_seqs' = << >>
  /\ self_len' = << >>
  /\ df' = << >>
  /\ seqs_shifts' = << >>
  /\ seqs' = << >>
  /\ binned' = << >>
  /\ tokenized' = << >>
  /\ UNCHANGED <<input, disk>>

Next ==
  \/ load
  \/ load_from_log
  \/ MakeDirs
  \/ OpenLength
  \/ DumpLength
  \/ SaveSeqsBegin
  \/ SaveSeqsEnd
  \/ getitem
  \/ dataset_len
  \/ \E n_positions \in Positions, reset_cache \in BOOLEAN :
       log_load(n_positions, reset_cache)
  \/ CorruptLength
  \/ Restart

Spec == Init /\ [][Next]_vars

(* ===================================================== properties ===== *)
\* load_from_log has run its in-memory part in this object (line 139 always
\* appends at least one session)
Ran == seqs # << >>

LabelsOf(f) == [i \in 1..Len(f) |-> f[i].label]

\* the position of the event labelled l in the sorted event stream: events
\* of a smaller timestamp come first, events of an equal timestamp in file order
RankOf(l) ==
  1 + Cardinality({m \in 0..(Len(log) - 1) :
                     \/ log[m + 1].time < log[l + 1].time
                     \/ (log[m + 1].time = log[l + 1].time /\ m < l)})

\* the labels of the sorted event stream
SortedLabels ==
  [p \in 1..Len(log) |-> CHOOSE l \in 0..(Len(log) - 1) : RankOf(l) = p]

\* the raw time delta of the event at position p of the sorted stream
RawDelta(p) ==
  IF p = 1 THEN 0
  ELSE log[SortedLabels[p] + 1].time - log[SortedLabels[p - 1] + 1].time

SessionSec == cfg.session_sep_min * SecPerMin
ShiftSec == cfg.shift_sep_min * SecPerMin

\* the log file has at least one row and its rows are in chronological order
Chronological ==
  /\ log # << >>
  /\ \A i \in 1..Len(log) : \A j \in i..Len(log) : log[i].time <= log[j].time

\* C1: the sessions load_from_log produces, concatenated in output order,
\* are exactly the sorted event stream (no event dropped, duplicated or
\* moved), also for logs of several shifts.  Stated for the logs that are
\* in chronological order already.
C1_SessionsAreTheStream ==
  (Ran /\ Chronological) => LabelsOf(Concat(seqs)) = SortedLabels

\* the raw user identifier of a row of a shift
RawUser(row) == log[row.label + 1].user

\* the position at which the identifier u first appears in the shift
FirstSeen(shift, u) ==
  CHOOSE i \in 1..Len(shift) :
    /\ RawUser(shift[i]) = u
    /\ \A j \in 1..(i - 1) : RawUser(shift[j]) # u

\* C4: within each shift every raw user identifier is sent to the number of
\* distinct identifiers that first appear before it in that shift (0 for the
\* first one seen, 1 for the next new one, ...).  Stated for the logs that
\* are in chronological order already.
C4_CodesByFirstAppearance ==
  (Ran /\ Chronological) =>
    \A k \in 1..Len(seqs_shifts) : \A i \in 1..Len(seqs_shifts[k]) :
      LET shift == seqs_shifts[k]
          u     == RawUser(shift[i])
          users == {RawUser(shift[j]) : j \in 1..Len(shift)}
      IN shift[i].user =
           Cardinality({v \in users : FirstSeen(shift, v) < FirstSeen(shift, u)})

\* C5: the first event of every non-empty session has the raw time delta 0
\* (before bucketing), for every log and thresholds.  Stated for the logs
\* that are in chronological order already.
C5_SessionStartsAtZero ==
  (Ran /\ Chronological) => \A k \in 1..Len(seqs) : seqs[k] # << >> => seqs[k][1].time = 0

\* C6: no session has an event after its first whose delta exceeds the
\* session gap, and no shift has an event after its first whose delta
\* exceeds the shift gap.  Stated for the logs that are in chronological
\* order already.
C6_NoInternalGap ==
  (Ran /\ Chronological) =>
    /\ \A k \in 1..Len(seqs) : \A i \in 2..Len(seqs[k]) :
         ~ Greater(seqs[k][i].time, SessionSec)
    /\ \A k \in 1..Len(seqs_shifts) : \A i \in 2..Len(seqs_shifts[k]) :
         ~ Greater(seqs_shifts[k][i].time, ShiftSec)

\* the positions of the sorted stream at which a session must start
SessionStarts == {1} \cup {p \in 2..Len(log) : RawDelta(p) > SessionSec}

\* the session that starts at position p: up to the next start
SessionFrom(p) ==
  LET later == {q \in SessionStarts : q > p}
      stop  == IF later = {} THEN Len(log)
               ELSE (CHOOSE q \in later : \A r \in later : q <= r) - 1
  IN [i \in 1..(stop - p + 1) |-> SortedLabels[p + i - 1]]

\* the sessions of the sorted stream, in order
RECURSIVE MaximalSessions(_)
MaximalSessions(p) ==
  IF p > Len(log) THEN << >>
  ELSE <<SessionFrom(p)>> \o MaximalSessions(p + Len(SessionFrom(p)))

\* C7: a session starts at an event exactly if the event is the first of the
\* stream or its raw delta is strictly greater than the session gap; the
\* first event of each session has its delta reset to 0 and the other
\* events keep their raw delta.  Stated for the logs that are in
\* chronological order already.
C7_SessionsAreMaximal ==
  (Ran /\ Chronological) =>
    /\ [k \in 1..Len(seqs) |-> LabelsOf(seqs[k])] = MaximalSessions(1)
    /\ \A k \in 1..Len(seqs) : \A i \in 1..Len(seqs[k]) :
         seqs[k][i].time =
           IF i = 1 THEN 0 ELSE RawDelta(RankOf(seqs[k][i].label))

\* C2: whatever the point at which the cache-save step is interrupted, a
\* later object never takes its state from the cache directory unless the
\* sequences artifact is there and the count it holds is the number of
\* stored sequences.  Stated for the logs that have at least one event.
C2_NoPartialCacheAccepted ==
  (pc = "loaded_cache" /\ log # << >>) =>
    /\ disk.seqs.st = "full"
    /\ (~ IsNone(self_len) => Get(self_len) = Len(disk.seqs.val))

\* C3: the count artifact (length.pkl) is on disk only when the sequences
\* artifact (seqs.pt) has been written completely.  Stated for the logs
\* that have at least one event.
C3_CountVisibleAfterSeqs ==
  (disk.length.st # "absent" /\ log # << >>) => disk.seqs.st = "full"

\* the token the specification puts at position j of a session's token sequence:
\* row-major, event by event, the columns in the order of tokenized_cols
ExpectedToken(s, j) ==
  LET ncols == Len(tokenized_cols)
      row   == s[((j - 1) \div ncols) + 1]
      col   == tokenized_cols[((j - 1) % ncols) + 1]
  IN field_to_token(col, Str(row, col))

EosToken == field_to_token("special", eos_token)

\* C8: a session of n events tokenized over k columns gives n*k + 1 tokens:
\* the tokens of the stringified values in row-major order, then the end of
\* sequence token as the one token after them.
C8_TokensRowMajorThenEos ==
  tokenized # << >> =>
    \A x \in 1..Len(tokenized) :
      LET t == tokenized[x]
          n == Len(binned[x])
          k == Len(tokenized_cols)
      IN /\ Len(t) = n * k + 1
         /\ \A j \in 1..(n * k) : t[j] = ExpectedToken(binned[x], j)
         /\ t[n * k + 1] = EosToken

\* a session of at least two events has been tokenized
C8_Witness ==
  /\ tokenized # << >>
  /\ \E x \in 1..Len(tokenized) : Len(binned[x]) >= 2 /\ Len(tokenized[x]) = 7

\* the window of the specification: max_length // num_columns
Window == Get(cfg.max_length) \div Len(tokenized_cols)

ClaimedBucket(d) ==
  LET edges == Get(cfg.timestamp_spaces)
  IN Cardinality({j \in 2..Len(edges) : edges[j] <= LnTable[d + 1]})

\* C10: the bucket written for an event is digitize(ln(delta + 1), edges[1:]);
\* the first element of timestamp_spaces is no bin boundary.
C10_FirstEdgeIsNoBoundary ==
  (Ran /\ ~ IsNone(cfg.timestamp_spaces)) =>
    \A k \in 1..Len(seqs) : \A i \in 1..Len(seqs[k]) :
      seqs[k][i].time >= 0 => binned[k][i].time = ClaimedBucket(seqs[k][i].time)

\* a delta whose logarithm is undefined: delta + 1 <= 0
UndefinedLog(x) == x # NaN /\ x <= -1

SomeUndefinedLog ==
  \E k \in 1..Len(seqs) : \E i \in 1..Len(seqs[k]) : UndefinedLog(seqs[k][i].time)

\* C11 as the specification states it: a run of load_from_log that buckets
\* a delta <= -1 fails; no such event is given a bucket index.
C11_UndefinedLogFails ==
  (Ran /\ ~ IsNone(cfg.timestamp_spaces) /\ SomeUndefinedLog) =>
    /\ pc = "failed"
    /\ tokenized = << >>

\* C11, amended: a delta <= -1 does not stop load_from_log.  The delta -1
\* (logarithm -inf) is given the bucket 0, a delta below -1 (logarithm NaN)
\* the bucket len(timestamp_spaces), and every session is tokenized when the
\* window allows it.
C11_UndefinedLogIsBucketed ==
  (Ran /\ ~ IsNone(cfg.timestamp_spaces)) =>
    /\ \A k \in 1..Len(seqs) : \A i \in 1..Len(seqs[k]) :
         UndefinedLog(seqs[k][i].time) =>
           binned[k][i].time = (IF seqs[k][i].time = -1 THEN 0
                                ELSE Len(Get(cfg.timestamp_spaces)))
    /\ (SomeUndefinedLog /\ cfg.should_tokenize /\ CanChunk(cfg.max_length)) =>
         Len(tokenized) = Len(seqs)

C11_Witness ==
  /\ Ran
  /\ \E k \in 1..Len(seqs) : \E i \in 1..Len(seqs[k]) : seqs[k][i].time = -1
  /\ \E k \in 1..Len(seqs) : \E i \in 1..Len(seqs[k]) :
       seqs[k][i].time = -60 /\ binned[k][i].time = Len(Edges)
  /\ tokenized # << >>

\* C12: a configuration error is raised before the dataset object has read
\* the log, read the cache or written the cache.
C12_RejectedBeforeIO == pc = "config_error" => io = {}

NoArtifacts == disk.length.st = "absent" /\ disk.seqs.st = "absent"
CompleteCache == disk.dir /\ disk.length.st = "full" /\ disk.seqs.st = "full"

\* C13: with a cache configured, a load() on a provider whose cache holds no
\* artifact (directory absent or empty) runs the pipeline from the log, and
\* a load() on a complete cache reads the log zero times and takes the count
\* from the cache.
C13_MissThenHit ==
  [][ (pc = "unloaded" /\ ~ IsNone(cfg.cache) /\ load) =>
        /\ NoArtifacts => "read_log" \in io'
        /\ CompleteCache => ("read_log" \notin io' /\ self_len' = disk.length.val)
    ]_vars

\* what lines 77-180 leave in self.seqs and self.len for a log file and a
\* configuration
Pipeline(file, c) ==
  LET d  == SortAndDelta(file, c.timestamp_sort_cols)
      sh == RemapUsers(SplitShifts(d, c.shift_sep_min))
      se == SplitSessions(sh, c.session_sep_min)
      bs == Bucketize(se, c.timestamp_spaces)
      tk == [k \in 1..Len(bs) |-> TokenizeSession(bs[k])]
  IN IF c.should_tokenize
     THEN [tokens |-> tk,
           seqs   |-> [k \in 1..Len(tk) |-> Chunked(tk[k], c.max_length)],
           len    |-> Some(Len(tk))]
     ELSE [tokens |-> << >>, seqs |-> bs, len |-> << >>]

LoadsCount(st) ==
  /\ pc = "unloaded"
  /\ ~ IsNone(cfg.cache)
  /\ disk.dir
  /\ disk.length.st \in st
  /\ load

C16_SequencesAreLazy ==
  [][ /\ LoadsCount({"absent", "full"} \cup RunsOutOfInput \cup Unpicklable) =>
           (self_seqs' = << >> /\ "read_seqs" \notin io')
      /\ dataset_len =>
           (self_seqs' = self_seqs /\ ("read_seqs" \in io' => "read_seqs" \in io))
      /\ ("read_seqs" \notin io /\ "read_seqs" \in io') =>
           (getitem /\ self_seqs = << >>)
      /\ (pc = "loaded_cache" /\ self_seqs = << >> /\ disk.seqs.st = "full"
            /\ disk.length.st \in {"full"} \cup RunsOutOfInput /\ getitem) =>
           ("read_seqs" \in io' /\ self_seqs' = disk.seqs.val)
    ]_vars

\* after a load from the cache only the count is in memory
C16_Witness ==
  /\ pc = "loaded_cache"
  /\ io = {"read_length"}
  /\ self_seqs = << >>
  /\ self_len = Some(2)
  /\ disk.seqs.st = "full"

\* C17: an empty event stream gives no shift, no session and no token
\* sequence; a stream of one event gives one session of one event whose
\* delta is 0.
C17_EmptyAndSingle ==
  ("read_log" \in io /\ pc # "config_error") =>
    /\ log = << >> =>
         (seqs_shifts = << >> /\ seqs = << >> /\ self_seqs = << >>)
    /\ Len(log) = 1 =>
         (Len(seqs) = 1 /\ Len(seqs[1]) = 1 /\ seqs[1][1].time = 0)

\* C18: after sorting by the sort columns (the timestamp first), the delta
\* of the first event of the sorted stream is 0 and the delta of every other
\* event is its timestamp minus that of the event before it in sorted order,
\* whatever the order of the rows in the file.
C18_DeltasOfSortedStream ==
  (df # << >> /\ log # << >> /\ cfg.timestamp_sort_cols = DefaultSortCols) =>
    /\ LabelsOf(df) = SortedLabels
    /\ \A p \in 1..Len(log) : df[p].time = RawDelta(p)

RenameUser(u) == IF u = 7 THEN 3 ELSE IF u = 3 THEN 7 ELSE u

\* the log with every user identifier renamed, timestamps and event types
\* as they are
Renamed(file) ==
  [i \in 1..Len(file) |->
     [user |-> RenameUser(file[i].user), time |-> file[i].time, ev |-> file[i].ev]]

\* C20: the token sequences of a log and those of the same log with the raw
\* user identifiers renamed injectively are identical.  Stated for the logs
\* that are in chronological order already.
C20_TokensHideUserIds ==
  (Ran /\ Chronological /\ tokenized # << >>) =>
    tokenized = Pipeline(Renamed(log), cfg).tokens

\* C21: when load_from_log has completed with a cache configured, the count
\* in length.pkl is an integer and equals the number of sequences in
\* seqs.pt, with and without tokenization.  Stated for the logs that have at
\* least one event.
C21_CountIsNumberOfSequences ==
  (pc = "loaded_log" /\ ~ IsNone(cfg.cache) /\ log # << >>) =>
    /\ disk.length.st = "full"
    /\ disk.seqs.st = "full"
    /\ ~ IsNone(disk.length.val)
    /\ Get(disk.length.val) = Len(disk.seqs.val)

====
